---- MODULE Spec2Model ----
(***************************************************************************)
(* Crime analytics pipeline of crime_management:                           *)
(*   crime_analytics_project/main.py                 (run_pipeline)        *)
(*   crime_analytics_project/src/data_preprocessor.py                      *)
(*   crime_analytics_project/src/model_trainer.py                          *)
(*                                                                         *)
(* Floats are exact rationals [n, d]; d = 0 is pandas' NaN.  Coordinates   *)
(* are in units of 1e-4 degree.  A table is the sequence of its rows in    *)
(* positional order.                                                       *)
(*                                                                         *)
(* Spec follows the scripts call by call, SpecAPI one preprocessor object  *)
(* called in any order, SpecSweep one hotspot training step by step.       *)
(***************************************************************************)
EXTENDS Integers, Sequences, FiniteSets, TLC

\* ------------------------------------------------------------------ bounds
MaxRows == 3            \* rows in the case store
MaxDbChanges == 1       \* case-store changes between calls on one preprocessor

\* ------------------------------------------------------- rational numbers
Rat(n, d) == [n |-> n, d |-> d]
NaN == Rat(0, 0)
IsNaN(x) == x.d = 0
Int2Rat(i) == Rat(i, 1)

RECURSIVE Gcd(_, _)
Gcd(a, b) == IF b = 0 THEN a ELSE Gcd(b, a % b)

Abs(i) == IF i < 0 THEN -i ELSE i

Norm(x) ==
  IF IsNaN(x) THEN NaN
  ELSE LET g == Gcd(Abs(x.n), x.d) IN Rat(x.n \div g, x.d \div g)

\* the common factor of two denominators, 1 when a side is NaN
Common(x, y) == IF IsNaN(x) \/ IsNaN(y) THEN 1 ELSE Gcd(x.d, y.d)

RatAdd(x, y) ==
  LET g == Common(x, y)
  IN  Norm(Rat(x.n * (y.d \div g) + y.n * (x.d \div g), x.d * (y.d \div g)))
RatSub(x, y) ==
  LET g == Common(x, y)
  IN  Norm(Rat(x.n * (y.d \div g) - y.n * (x.d \div g), x.d * (y.d \div g)))
RatDivInt(x, k) == IF k = 0 THEN NaN ELSE Norm(Rat(x.n, x.d * k))
RatMul(x, y) == Norm(Rat(x.n * y.n, x.d * y.d))
RatLeq(x, y) ==
  LET g == Common(x, y) IN x.n * (y.d \div g) <= y.n * (x.d \div g)
\* x >= y on floats: False when either side is NaN
RatGeq(x, y) == ~IsNaN(x) /\ ~IsNaN(y) /\ RatLeq(y, x)
RatLt(x, y) ==
  LET g == Common(x, y) IN x.n * (y.d \div g) < y.n * (x.d \div g)

\* ------------------------------------------------------- sequence helpers
Range(s) == {s[i] : i \in 1..Len(s)}

RECURSIVE SumSeq(_)
SumSeq(s) == IF s = <<>> THEN Int2Rat(0) ELSE RatAdd(Head(s), SumSeq(Tail(s)))

NotNaNs(s) == SelectSeq(s, LAMBDA x : ~IsNaN(x))

Column(t, c) == [i \in 1..Len(t) |-> t[i][c]]

\* pandas Series.mean(): NaN skipped, NaN when nothing is left
Mean(s) == LET v == NotNaNs(s) IN RatDivInt(SumSeq(v), Len(v))

\* pandas Series.median(): NaN skipped, mean of the two middle values
Median(s) ==
  LET v == SortSeq(NotNaNs(s), RatLt)
      k == Len(v)
  IN  IF k = 0 THEN NaN
      ELSE IF k % 2 = 1 THEN v[(k + 1) \div 2]
      ELSE RatDivInt(RatAdd(v[k \div 2], v[k \div 2 + 1]), 2)

\* pandas Series.fillna(value)
FillNa(x, value) == IF IsNaN(x) THEN value ELSE x

\* ------------------------------------------------------------ case store
LatLo == 125000
LatHi == 135000
LonLo == 798000
LonHi == 808000

Raw(id, lat, lon, dist, code, sev, hr, age) ==
  [case_id |-> id, latitude |-> lat, longitude |-> lon, district |-> dist,
   crime_type_code |-> code, severity_level |-> sev, hour |-> hr,
   complainant_age |-> age]

\* rows the query of load_data can return
Pool ==
  { Raw(1, Int2Rat(130827), Int2Rat(802707), "Central", "TH", "Moderate", 9, Int2Rat(30)),
    Raw(2, Int2Rat(125000), Int2Rat(808000), "South", "AS", "Serious", 21, NaN),
    Raw(3, Int2Rat(135000), Int2Rat(798000), "West", "FR", "High", 3, Int2Rat(61)),
    Raw(1, NaN, Int2Rat(802824), "South", "TH", "Minor", 14, Int2Rat(45)),
    Raw(4, Int2Rat(130460), Int2Rat(802824), "East", "DR", "Critical", 21, Int2Rat(22)),
    Raw(5, Int2Rat(135001), Int2Rat(802337), "North", "AS", "Serious", 6, Int2Rat(38)) }

SeqsUpTo(S, n) == UNION {[1..k -> S] : k \in 0..n}
Batches == SeqsUpTo(Pool, MaxRows)

\* --------------------------------------------- data_preprocessor.clean_data
FilterIdx(t, Keep(_)) ==
  LET F[i \in 0..Len(t)] ==
        IF i = 0 THEN <<>>
        ELSE IF Keep(i) THEN Append(F[i - 1], t[i]) ELSE F[i - 1]
  IN  F[Len(t)]

\* keep='last': the last occurrence stays
drop_duplicates_mut(t) ==
  FilterIdx(t, LAMBDA i :
    \A j \in (i + 1)..Len(t) : t[j].case_id # t[i].case_id)

\* DataFrame.drop_duplicates(subset=['case_id']): the first occurrence stays
drop_duplicates(t) ==
  FilterIdx(t, LAMBDA i : \A j \in 1..(i - 1) : t[j].case_id # t[i].case_id)

\* between with the bounds excluded
between_mut(x, lo, hi) == ~IsNaN(x) /\ lo * x.d < x.n /\ x.n < hi * x.d

\* Series.between(lo, hi): inclusive on both sides, False for NaN
between(x, lo, hi) == ~IsNaN(x) /\ lo * x.d <= x.n /\ x.n <= hi * x.d

InWindow(r) ==
  between(r.latitude, LatLo, LatHi) /\ between(r.longitude, LonLo, LonHi)

\* df[col].fillna(value, inplace=True) on a column selected from the frame:
\* it writes through to the frame unless pandas runs copy-on-write, where the
\* selected column is a copy and the frame keeps its missing values.
fill_missing(t, cow) ==
  IF cow THEN t
  ELSE LET lat == Mean(Column(t, "latitude"))
           lon == Mean(Column(t, "longitude"))
           age == Median(Column(t, "complainant_age"))
       IN  [i \in 1..Len(t) |->
              [t[i] EXCEPT !.latitude = FillNa(@, lat),
                           !.longitude = FillNa(@, lon),
                           !.complainant_age = FillNa(@, age)]]

clean_data(t, cow) == SelectSeq(fill_missing(drop_duplicates(t), cow), InWindow)

\* --------------------------------------- data_preprocessor.engineer_features
\* the morning starts after six
categorize_time_mut(hour) ==
  IF 6 < hour /\ hour < 12 THEN "Morning"
  ELSE IF 12 <= hour /\ hour < 18 THEN "Afternoon"
  ELSE IF 18 <= hour /\ hour < 22 THEN "Evening"
  ELSE "Night"

categorize_time(hour) ==
  IF 6 <= hour /\ hour < 12 THEN "Morning"
  ELSE IF 12 <= hour /\ hour < 18 THEN "Afternoon"
  ELSE IF 18 <= hour /\ hour < 22 THEN "Evening"
  ELSE "Night"

is_night(hour) == IF hour >= 20 \/ hour <= 6 THEN 1 ELSE 0

\* numpy round of num/den (num >= 0, den > 0): half goes to the even integer
RoundHalfEven(num, den) ==
  LET q == num \div den
      r == num % den
  IN  IF 2 * r < den THEN q
      ELSE IF 2 * r > den THEN q + 1
      ELSE IF q % 2 = 0 THEN q ELSE q + 1

\* astype(int) without the round: the fraction is cut off
grid_of_mut(x) == x.n \div (100 * x.d)

\* (coord * 100).round().astype(int), coord in units of 1e-4 degree
grid_of(x) == RoundHalfEven(x.n, 100 * x.d)

grid_cell_of(r) == <<grid_of(r.latitude), grid_of(r.longitude)>>

\* the reference point (13.0827, 80.2707)
city_center == <<130827, 802707>>

\* the largest k in lo..hi with k * k <= n
RECURSIVE SqrtBetween(_, _, _)
SqrtBetween(n, lo, hi) ==
  IF lo = hi THEN lo
  ELSE LET mid == (lo + hi + 1) \div 2
       IN  IF mid * mid <= n THEN SqrtBetween(n, mid, hi)
           ELSE SqrtBetween(n, lo, mid - 1)

\* np.sqrt, to the unit of 1e-4 degree
Sqrt(n) == SqrtBetween(n, 0, 46340)

\* |coord - c| to the unit of 1e-4 degree
OffCenter(x, c) == RoundHalfEven(Abs(x.n - c * x.d), x.d)

\* sqrt((latitude - c0)**2 + (longitude - c1)**2), in units of 1e-4 degree
dist_from_center(r) ==
  LET dlat == OffCenter(r.latitude, city_center[1])
      dlon == OffCenter(r.longitude, city_center[2])
  IN  Sqrt(dlat * dlat + dlon * dlon)

\* grid_crime_count / (dist_from_center + 0.1), the distance in degrees
crime_density_score(count, dist) == Norm(Rat(count * 10000, dist + 1000))

\* severity_score * 0.4 + crime_density_score * 0.3
\*   + grid_crime_count / grid_crime_count.max() * 30 * 0.3
risk_score(severity, density, count, max_count) ==
  RatAdd(RatAdd(RatMul(severity, Rat(2, 5)), RatMul(density, Rat(3, 10))),
         Norm(Rat(9 * count, max_count)))

\* lexicographic order of the category labels, as sorted() orders them
LexOrder ==
  <<"AS", "Afternoon", "Central", "DR", "East", "Evening", "FR", "Morning",
    "Night", "North", "South", "TH", "West">>

categorical_cols == <<"district", "time_period", "crime_type_code">>

\* LabelEncoder.fit: classes_ are the sorted distinct values
le_fit(values) == SelectSeq(LexOrder, LAMBDA v : v \in Range(values))

\* LabelEncoder.transform: position in classes_, from 0
le_transform(classes, v) == (CHOOSE k \in 1..Len(classes) : classes[k] = v) - 1

\* Serious is given the score of Moderate
severity_map_mut(level) ==
  CASE level = "Minor" -> Int2Rat(1)
    [] level = "Moderate" -> Int2Rat(2)
    [] level = "Serious" -> Int2Rat(2)
    [] level = "Critical" -> Int2Rat(4)
    [] OTHER -> NaN

severity_map(level) ==
  CASE level = "Minor" -> Int2Rat(1)
    [] level = "Moderate" -> Int2Rat(2)
    [] level = "Serious" -> Int2Rat(3)
    [] level = "Critical" -> Int2Rat(4)
    [] OTHER -> NaN

CountWhere(t, P(_)) == Cardinality({i \in 1..Len(t) : P(t[i])})

fit_encoders(t) ==
  LET tp == [i \in 1..Len(t) |-> categorize_time(t[i].hour)]
  IN  [c \in Range(categorical_cols) |->
         IF c = "time_period" THEN le_fit(tp) ELSE le_fit(Column(t, c))]

\* every record is given the number of all records
grid_counts_mut(t, cell) == Len(t)

\* df['grid_cell'].value_counts(), looked up for one cell
grid_counts(t, cell) ==
  Cardinality({i \in 1..Len(t) : grid_cell_of(t[i]) = cell})

MaxOf(S) == CHOOSE m \in S : \A x \in S : x <= m

engineer_features(t) ==
  LET enc == fit_encoders(t)
      max_count == MaxOf({grid_counts(t, grid_cell_of(t[j])) : j \in 1..Len(t)})
  IN  [i \in 1..Len(t) |->
        LET r == t[i]
            tp == categorize_time(r.hour)
            cell == grid_cell_of(r)
            dist == dist_from_center(r)
            density == crime_density_score(grid_counts(t, cell), dist)
        IN  [case_id |-> r.case_id,
             latitude |-> r.latitude,
             longitude |-> r.longitude,
             district |-> r.district,
             crime_type_code |-> r.crime_type_code,
             severity_level |-> r.severity_level,
             hour |-> r.hour,
             complainant_age |-> r.complainant_age,
             is_night |-> is_night(r.hour),
             time_period |-> tp,
             grid_cell |-> cell,
             dist_from_center |-> dist,
             grid_crime_count |-> grid_counts(t, cell),
             crime_density_score |-> density,
             district_encoded |-> le_transform(enc["district"], r.district),
             time_period_encoded |-> le_transform(enc["time_period"], tp),
             crime_type_code_encoded |->
               le_transform(enc["crime_type_code"], r.crime_type_code),
             severity_score |-> severity_map(r.severity_level),
             risk_score |->
               risk_score(severity_map(r.severity_level), density,
                          grid_counts(t, cell), max_count)]]

\* ------------------------------ data_preprocessor.create_aggregated_features
Distinct(s) == FilterIdx(s, LAMBDA i : \A j \in 1..(i - 1) : s[j] # s[i])

CellBefore(a, b) == a[1] < b[1] \/ (a[1] = b[1] /\ a[2] < b[2])

\* one group per record: a cell with two records is listed twice
create_aggregated_features_mut(t) ==
  LET cells == SortSeq(Column(t, "grid_cell"), CellBefore)
  IN  [k \in 1..Len(cells) |->
        LET g == SelectSeq(t, LAMBDA r : r.grid_cell = cells[k])
        IN  [grid_cell |-> cells[k],
             total_crimes |-> Len(g),
             avg_severity |-> Mean(Column(g, "severity_score")),
             center_lat |-> Mean(Column(g, "latitude")),
             center_lon |-> Mean(Column(g, "longitude")),
             night_crime_rate |->
               Mean([i \in 1..Len(g) |-> Int2Rat(g[i].is_night)])]]

\* groupby('grid_cell'): one group per value that occurs, keys sorted
create_aggregated_features(t) ==
  LET cells == SortSeq(Distinct(Column(t, "grid_cell")), CellBefore)
  IN  [k \in 1..Len(cells) |->
        LET g == SelectSeq(t, LAMBDA r : r.grid_cell = cells[k])
        IN  [grid_cell |-> cells[k],
             total_crimes |-> Len(g),
             avg_severity |-> Mean(Column(g, "severity_score")),
             center_lat |-> Mean(Column(g, "latitude")),
             center_lon |-> Mean(Column(g, "longitude")),
             night_crime_rate |->
               Mean([i \in 1..Len(g) |-> Int2Rat(g[i].is_night)])]]

\* ------------------------------------- data_preprocessor.prepare_ml_features
feature_cols ==
  <<"latitude", "longitude", "hour", "day_of_week", "month",
    "is_weekend", "is_night", "dist_from_center",
    "grid_crime_count", "district_crime_count", "crime_density_score",
    "hour_crime_rate", "severity_score", "priority_score",
    "complainant_age", "district_encoded",
    "time_period_encoded", "crime_type_code_encoded">>

target_cols == <<"case_id", "target_severity", "target_crime_type", "target_risk">>

\* the feature columns whose values the model carries
ValueCols ==
  {"latitude", "longitude", "hour", "is_night", "grid_crime_count",
   "severity_score", "complainant_age", "district_encoded",
   "time_period_encoded", "crime_type_code_encoded"}

IntCols ==
  {"hour", "is_night", "grid_crime_count", "district_encoded",
   "time_period_encoded", "crime_type_code_encoded"}

\* df[feature_cols]: the cell of row r in column c, as a float
FeatureValue(r, c) == IF c \in IntCols THEN Int2Rat(r[c]) ELSE r[c]

\* X.fillna(X.median(), inplace=True): X is its own frame, the fill applies
impute(t) ==
  LET med == [c \in ValueCols |->
                Median([i \in 1..Len(t) |-> FeatureValue(t[i], c)])]
  IN  [i \in 1..Len(t) |->
         [c \in ValueCols |-> FillNa(FeatureValue(t[i], c), med[c])]]

NoScaler == [n_samples_seen |-> 0, mean |-> [c \in ValueCols |-> NaN]]

\* StandardScaler.fit: the statistics are recomputed from X alone
scaler_fit(X) ==
  [n_samples_seen |-> Len(X),
   mean |-> [c \in ValueCols |-> Mean([i \in 1..Len(X) |-> X[i][c]])]]

\* StandardScaler.transform: (x - mean_) / scale_; the rows keep x - mean_,
\* the positive factor 1 / scale_ is not rational and is left out
scaler_transform(sc, X) ==
  [i \in 1..Len(X) |->
     [c \in ValueCols |->
        IF IsNaN(X[i][c]) THEN NaN ELSE RatSub(X[i][c], sc.mean[c])]]

prepare_ml_features(t) ==
  LET X == impute(t)
      sc == scaler_fit(X)
      Xs == scaler_transform(sc, X)
  IN  [scaler |-> sc,
       feature_columns |-> feature_cols,
       matrix |->
         [columns |-> feature_cols \o target_cols,
          rows |-> [i \in 1..Len(t) |->
                     [x |-> Xs[i],
                      case_id |-> t[i].case_id,
                      target_severity |-> t[i].severity_score,
                      target_crime_type |-> t[i].crime_type_code_encoded]]]]

\* fit_transform rejects a frame without rows
prepare_raises(t) == Len(t) = 0

\* ------------------------------------------------ tables written as CSV
\* columns of df_features, in the order engineer_features creates them
featured_columns ==
  <<"case_id", "incident_datetime", "incident_location", "latitude",
    "longitude", "district", "crime_type_code", "crime_type_description",
    "severity_level", "complainant_age", "priority", "status",
    "hour", "day_of_week", "day_of_month", "month", "year", "quarter",
    "is_weekend", "is_night", "time_period", "dist_from_center",
    "lat_grid", "lon_grid", "grid_cell", "grid_crime_count",
    "district_crime_count", "crime_density_score", "hour_crime_rate",
    "district_encoded", "time_period_encoded", "crime_type_code_encoded",
    "severity_score", "priority_score", "status_encoded", "age_group",
    "risk_score">>

grid_columns ==
  <<"grid_cell", "total_crimes", "avg_severity", "avg_priority",
    "center_lat", "center_lon", "weekend_crime_rate", "night_crime_rate">>

Table(cols, rows) == [columns |-> cols, rows |-> rows]
NoTable == Table(<<>>, <<>>)

\* to_csv(index=False) followed by read_csv: header and rows in order, the
\* index is not written, a missing value is an empty field and reads as NaN
csv_round_trip(t) == Table(t.columns, [i \in 1..Len(t.rows) |-> t.rows[i]])

\* ------------------------------------------------------ model_trainer
leak_cols_crime ==
  <<"case_id", "target_severity", "target_crime_type", "target_risk",
    "crime_type_code_encoded", "severity_score", "priority_score">>

leak_cols_severity ==
  <<"case_id", "target_severity", "target_crime_type", "target_risk",
    "crime_type_code_encoded", "severity_score", "priority_score">>

\* the exclusion list of one procedure drifts: severity_score is left out
leak_cols_anomaly_mut ==
  <<"case_id", "target_severity", "target_crime_type", "target_risk",
    "crime_type_code_encoded", "priority_score">>

leak_cols_anomaly ==
  <<"case_id", "target_severity", "target_crime_type", "target_risk",
    "crime_type_code_encoded", "severity_score", "priority_score">>

\* [col for col in self.df_ml.columns if col not in leak_cols]
select_features(columns, leak) ==
  SelectSeq(columns, LAMBDA c : c \notin Range(leak))

ModelNames ==
  {"crime_prediction", "severity_prediction", "hotspot_clustering",
   "dbscan_clustering", "anomaly_detection", "kernel_density"}

EmptyDict == [n \in {} |-> 0]

\* d[key] = value
DictPut(d, key, value) ==
  [n \in DOMAIN d \cup {key} |-> IF n = key THEN value ELSE d[n]]

\* self.results[...] of each procedure: the type of every stored value
results_crime ==
  [k \in {"train_score", "test_score", "feature_importance"} |->
     IF k = "feature_importance" THEN "DataFrame" ELSE "float"]

results_severity == [k \in {"train_rmse", "test_rmse"} |-> "np.float64"]

results_hotspot ==
  [k \in {"optimal_k", "silhouette_score", "cluster_centers"} |->
     CASE k = "optimal_k" -> "int"
       [] k = "silhouette_score" -> "np.float64"
       [] OTHER -> "ndarray"]

results_anomaly ==
  [k \in {"n_anomalies", "anomaly_rate"} |->
     IF k = "n_anomalies" THEN "np.int64" ELSE "np.float64"]

results_kde == [k \in {"density_grid", "lat_grid", "lon_grid"} |-> "ndarray"]

\* only numpy arrays are skipped
is_array_mut(kind) == kind = "ndarray"

\* isinstance(v, (np.ndarray, pd.DataFrame))
is_array(kind) == kind \in {"ndarray", "DataFrame"}

\* int(v) for numpy integers, float(v) for numpy floats, v otherwise
to_native(kind) ==
  CASE kind = "np.int64" -> "int"
    [] kind = "np.float64" -> "float"
    [] OTHER -> kind

\* results_serializable of save_all_models
results_serializable(results) ==
  [key \in DOMAIN results |->
     [k \in {k \in DOMAIN results[key] : ~is_array(results[key][k])} |->
        to_native(results[key][k])]]

\* ---- train_hotspot_clustering_model: the sweep over the cluster count
Min(a, b) == IF a < b THEN a ELSE b

max_k(n_samples) ==
  LET m == Min(10, n_samples - 1) IN IF m <= 2 THEN 2 ELSE m

\* range(2, max_k + 1) as a list
k_range(n_samples) == [i \in 1..(max_k(n_samples) - 1) |-> i + 1]

MaxScore == 2
\* what KMeans and silhouette_score give for one k: the number of distinct
\* labels of the fit and the score of that labelling
SweepOutcomes(n_samples, k) ==
  [labels : 1..Min(k, n_samples), sil : 1..MaxScore]

\* KMeans.fit needs n_samples >= n_clusters, silhouette_score needs at most
\* n_samples - 1 labels
sweep_raises(n_samples, sw) ==
  \E i \in 1..Len(sw) :
     \/ n_samples < k_range(n_samples)[i]
     \/ sw[i].labels > 1 /\ sw[i].labels > n_samples - 1

\* silhouette_scores: a k that gave a single label appends nothing
silhouette_scores(sw) ==
  LET kept == SelectSeq(sw, LAMBDA o : o.labels > 1)
  IN  [i \in 1..Len(kept) |-> kept[i].sil]

\* np.argmax: index (from 0) of the first maximum
argmax(s) ==
  (CHOOSE i \in 1..Len(s) :
     /\ \A j \in 1..Len(s) : s[j] <= s[i]
     /\ \A j \in 1..(i - 1) : s[j] < s[i]) - 1

\* optimal_k = k_range[np.argmax(silhouette_scores)]
optimal_k_of(n_samples, sw) ==
  k_range(n_samples)[argmax(silhouette_scores(sw)) + 1]

\* argmax of an empty list raises; so does the silhouette of the final fit
\* when the chosen k gives a single label
hotspot_raises(n_samples, sw) ==
  \/ n_samples = 0
  \/ sweep_raises(n_samples, sw)
  \/ silhouette_scores(sw) = <<>>
  \/ sw[optimal_k_of(n_samples, sw) - 1].labels < 2

\* ====================================================== the state machine
VARIABLES
  db,              \* rows the case-store query returns
  db_changes,      \* number of case-store changes so far
  pandas_cow,      \* whether pandas runs copy-on-write
  schema_missing,  \* the queried column the case store lacks, "none" if none
  disk_processed,  \* data/processed
  disk_models,     \* data/models
  entry,           \* the script that is running
  steps_arg,       \* the steps argument run_pipeline was called with
  run_steps,       \* run_pipeline's run_steps
  pc,              \* position in the script's sequence of calls
  status,          \* "idle", "running", "ok", "failed"
  log,             \* the calls started in this run, in order
  failed_call,     \* the call that raised, "" if none
  processor,       \* the CrimeDataPreprocessor object
  feature_columns, \* feature_cols returned by prepare_ml_features
  trainer,         \* the CrimeModelTrainer object
  hotspot,         \* the locals of one train_hotspot_clustering_model call
  dbscan,          \* the locals of one train_dbscan_clustering call
  session_conn,    \* st.session_state.db_conn: a connection, None, or unset
  conn_state,      \* the state of the connection object the session holds
  opened,          \* number of connections psycopg2.connect has made
  returned,        \* what the last get_connection call returned
  caller,          \* "backend" while main_backend.py holds its conn
  case_table,      \* the rows of CASE_TABLE, a row's place is its CASE_ID
  history          \* the rows of CASE_ASSIGNMENT_HISTORY

vars ==
  <<db, db_changes, pandas_cow, schema_missing, disk_processed, disk_models,
    entry, steps_arg, run_steps, pc, status, log, failed_call, processor,
    feature_columns, trainer, hotspot, dbscan, session_conn, conn_state,
    opened, returned, caller, case_table, history>>

connVars == <<session_conn, conn_state, opened, returned, caller>>
tableVars == <<case_table, history>>

envVars ==
  <<db, db_changes, pandas_cow, schema_missing, hotspot, dbscan, connVars,
    tableVars>>
runVars == <<entry, steps_arg, run_steps, pc, status, log, failed_call>>

\* ---------------------------------------------------------- the scripts
StepOrder == <<"generate", "preprocess", "train", "visualize">>

generate_calls == <<"generate">>

preprocess_calls ==
  <<"new_preprocessor", "load_data", "clean_data", "engineer_features",
    "create_aggregated_features", "prepare_ml_features",
    "save_processed_data">>

train_calls ==
  <<"new_trainer", "trainer_load_data", "train_crime_prediction_model",
    "train_severity_prediction_model", "train_hotspot_clustering_model",
    "train_dbscan_clustering", "train_anomaly_detection_model",
    "train_kernel_density_estimator", "save_all_models",
    "generate_performance_report">>

visualize_calls == <<"visualize">>

StepCalls(step) ==
  CASE step = "generate" -> generate_calls
    [] step = "preprocess" -> preprocess_calls
    [] step = "train" -> train_calls
    [] step = "visualize" -> visualize_calls

\* main.run_pipeline: the four "if step in run_steps" blocks, in file order
run_pipeline_calls(steps) ==
  LET F[i \in 0..Len(StepOrder)] ==
        IF i = 0 THEN <<>>
        ELSE IF StepOrder[i] \in steps
             THEN F[i - 1] \o StepCalls(StepOrder[i]) ELSE F[i - 1]
  IN  F[Len(StepOrder)]

\* the script engineers the features before it cleans the data
preprocessor_main_calls_mut ==
  <<"new_preprocessor", "connect_db", "load_data", "engineer_features",
    "clean_data", "create_aggregated_features", "prepare_ml_features",
    "save_processed_data", "get_data_summary">>

\* data_preprocessor.py run as a script
preprocessor_main_calls ==
  <<"new_preprocessor", "connect_db", "load_data", "clean_data",
    "engineer_features", "create_aggregated_features", "prepare_ml_features",
    "save_processed_data", "get_data_summary">>

\* model_trainer.py run as a script
trainer_main_calls == train_calls

Program(e, steps) ==
  CASE e = "main" -> run_pipeline_calls(steps)
    [] e = "preprocessor_main" -> preprocessor_main_calls
    [] e = "trainer_main" -> trainer_main_calls
    [] OTHER -> <<>>

Prog == Program(entry, run_steps)

At(c) == status = "running" /\ pc <= Len(Prog) /\ Prog[pc] = c

\* the call returned: on to the next call, or the script ends normally
Return(c) ==
  /\ log' = Append(log, c)
  /\ IF pc = Len(Prog) THEN status' = "ok" ELSE status' = "running"
  /\ pc' = pc + 1
  /\ UNCHANGED <<entry, steps_arg, run_steps, failed_call>>

\* the exception is swallowed and the next call is made
Raise_mut(c) ==
  /\ log' = Append(log, c)
  /\ IF pc = Len(Prog) THEN status' = "ok" ELSE status' = "running"
  /\ pc' = pc + 1
  /\ UNCHANGED <<entry, steps_arg, run_steps, failed_call>>

\* the call raised: run_pipeline prints the error and returns False, a
\* script ends with the uncaught exception
Raise(c) ==
  /\ log' = Append(log, c)
  /\ status' = "failed"
  /\ failed_call' = c
  /\ UNCHANGED <<entry, steps_arg, run_steps, pc>>

\* the step of run_pipeline whose try block makes the call
StepOf(c) == CHOOSE step \in Range(StepOrder) : c \in Range(StepCalls(step))

\* what the except block of a step prints before run_pipeline returns False
error_label(step) ==
  CASE step = "generate" -> "data generation"
    [] step = "preprocess" -> "preprocessing"
    [] step = "train" -> "model training"
    [] step = "visualize" -> "visualization"

\* the message a failed run leaves: run_pipeline's line, or for a script the
\* traceback of the uncaught exception, which ends in the call that raised
error_message(e, c) ==
  IF e = "main" THEN "Error in " \o error_label(StepOf(c))
  ELSE "Traceback: " \o c

\* ------------------------------------------------------------- objects
NewProcessor ==
  [attrs |-> {}, df_crimes |-> <<>>, df_clean |-> <<>>, df_features |-> <<>>,
   grid_aggregated |-> <<>>, ml_features |-> NoTable,
   label_encoders |-> EmptyDict, scaler |-> NoScaler]

NewTrainer ==
  [df_features |-> NoTable, df_ml |-> NoTable, df_grid |-> NoTable,
   models |-> {}, results |-> EmptyDict, fit_input |-> EmptyDict,
   optimal_k |-> 0]

NoProcessed ==
  [present |-> FALSE, features |-> NoTable, ml |-> NoTable, grid |-> NoTable,
   label_encoders |-> EmptyDict, scaler |-> NoScaler]

NoModels ==
  [present |-> FALSE, pkl |-> {}, model_results |-> EmptyDict,
   crimes_with_predictions |-> NoTable, grid_with_clusters |-> NoTable]

\* the steps argument: a string, or a list of strings
StrArg(name) == [kind |-> "str", value |-> <<name>>]
ListArg(list) == [kind |-> "list", value |-> list]
NoArg == ListArg(<<>>)

\* no script has run yet: nothing on disk, no object made
Idle ==
  /\ disk_processed = NoProcessed
  /\ disk_models = NoModels
  /\ entry = "none"
  /\ steps_arg = NoArg
  /\ run_steps = {}
  /\ pc = 1
  /\ status = "idle"
  /\ log = <<>>
  /\ failed_call = ""
  /\ processor = NewProcessor
  /\ feature_columns = <<>>
  /\ trainer = NewTrainer

\* inertias, silhouette_scores, n_samples and optimal_k of the call: fitted
\* are the k handed to KMeans in the loop, sw what each finished fit gave
NewSweep(n) ==
  [n_samples |-> n, phase |-> "start", fitted |-> <<>>, sw |-> <<>>,
   optimal_k |-> 0]

NoSweep == NewSweep(0)

\* labels as fit_predict returns them, n_clusters, n_noise and the
\* dbscan_cluster column of df_grid
NewDbscan(labels) ==
  [labels |-> labels, phase |-> "start", n_clusters |-> 0, n_noise |-> 0,
   dbscan_cluster |-> <<>>]

NoDbscan == NewDbscan(<<>>)

\* "db_conn" not in st.session_state, and the value None
KeyAbsent == -1
NoConn == 0

\* a browser session that has not started, on no case table
NewSession ==
  /\ session_conn = KeyAbsent
  /\ conn_state = "none"
  /\ opened = 0
  /\ returned = NoConn
  /\ caller = "none"

NoDashboard ==
  /\ NewSession
  /\ case_table = <<>>
  /\ history = {}

\* the columns the query of load_data selects, under the names it gives them
QueryColumns ==
  {"case_id", "incident_datetime", "incident_location", "latitude",
   "longitude", "district", "crime_type_code", "crime_type_description",
   "severity_level", "complainant_age", "priority", "status"}

Init ==
  /\ \/ schema_missing = "none" /\ db \in Batches
     \/ schema_missing \in QueryColumns /\ db = <<>>
  /\ db_changes = 0
  /\ pandas_cow \in BOOLEAN
  /\ Idle
  /\ hotspot = NoSweep
  /\ dbscan = NoDbscan
  /\ NoDashboard

\* a script is started; the objects of the previous process are gone
StartRun(e, steps) ==
  /\ status # "running"
  /\ entry' = e
  /\ run_steps' = steps
  /\ pc' = 1
  /\ status' = IF Program(e, steps) = <<>> THEN "ok" ELSE "running"
  /\ log' = <<>>
  /\ failed_call' = ""
  /\ processor' = NewProcessor
  /\ feature_columns' = <<>>
  /\ trainer' = NewTrainer
  /\ UNCHANGED <<envVars, disk_processed, disk_models>>

\* the branch for 'all' is missing: the string is taken as a step name
run_steps_of_mut(arg) == arg.value

\* if steps == 'all' ... elif isinstance(steps, str) ... else ...
run_steps_of(arg) ==
  IF arg = StrArg("all") THEN StepOrder ELSE arg.value

\* run_pipeline called with the list of the steps wanted
StartMain ==
  \E steps \in SUBSET Range(StepOrder) :
    /\ StartRun("main", steps)
    /\ steps_arg' = ListArg(SelectSeq(StepOrder, LAMBDA x : x \in steps))

StartPreprocessorMain ==
  StartRun("preprocessor_main", {}) /\ steps_arg' = NoArg

StartTrainerMain ==
  StartRun("trainer_main", {}) /\ steps_arg' = NoArg

\* ------------------------------- CrimeDataPreprocessor: what a method does
Has(p, a) == a \in p.attrs

connect_db(p) == [p EXCEPT !.attrs = @ \cup {"conn"}]

\* the connections the object holds open: self.conn from connect_db on, for
\* no statement of the class closes it or lets go of it
open_connections(p) == IF Has(p, "conn") THEN {"conn"} ELSE {}

\* self.conn is read: AttributeError when connect_db was never called
load_data_raises(p) == ~Has(p, "conn")
\* the query names every column it selects: the database rejects it when the
\* case store lacks one of them, and pd.read_sql raises
query_raises(missing) == missing \in QueryColumns
load_data(p, rows) ==
  [p EXCEPT !.df_crimes = rows, !.attrs = @ \cup {"df_crimes"}]

clean_data_raises(p) == ~Has(p, "df_crimes")
do_clean_data(p, cow) ==
  [p EXCEPT !.df_clean = clean_data(p.df_crimes, cow),
            !.attrs = @ \cup {"df_clean"}]

engineer_features_raises(p) == ~Has(p, "df_clean")
\* the call adds its rows to the featured table it made before
do_engineer_features_mut(p) ==
  [p EXCEPT !.df_features = @ \o engineer_features(p.df_clean),
            !.label_encoders = fit_encoders(p.df_clean),
            !.attrs = @ \cup {"df_features"}]

\* a new LabelEncoder per column is fitted on this call's table and stored
do_engineer_features(p) ==
  [p EXCEPT !.df_features = engineer_features(p.df_clean),
            !.label_encoders = fit_encoders(p.df_clean),
            !.attrs = @ \cup {"df_features"}]

create_aggregated_features_raises(p) == ~Has(p, "df_features")
do_create_aggregated_features(p) ==
  [p EXCEPT !.grid_aggregated = create_aggregated_features(p.df_features),
            !.attrs = @ \cup {"grid_aggregated"}]

prepare_ml_features_raises(p) ==
  ~Has(p, "df_features") \/ prepare_raises(p.df_features)
\* self.scaler.fit_transform(X): the scaler is fitted again on this call's X
do_prepare_ml_features(p) ==
  LET r == prepare_ml_features(p.df_features)
  IN  [p EXCEPT !.ml_features = r.matrix,
                !.scaler = r.scaler,
                !.attrs = @ \cup {"ml_features"}]

save_processed_data_raises(p) ==
  ~({"df_features", "grid_aggregated", "ml_features"} \subseteq p.attrs)

\* crime_type_<code> columns of the pivot, one per code that occurs
pivot_columns(t) ==
  LET codes == le_fit(Column(t, "crime_type_code"))
  IN  [i \in 1..Len(codes) |-> "crime_type_" \o codes[i]]

save_processed_data(p) ==
  [present |-> TRUE,
   features |-> Table(featured_columns, p.df_features),
   grid |-> Table(grid_columns \o pivot_columns(p.df_features),
                  p.grid_aggregated),
   ml |-> p.ml_features,
   label_encoders |-> p.label_encoders,
   scaler |-> p.scaler]

\* ------------------------------------------- the preprocessing calls of a run
preVars == <<processor, feature_columns, disk_processed>>
trainVars == <<trainer, disk_models>>

\* from data_generator import CrimeDataGenerator: the module defines no such
\* class, the import raises
Generate ==
  /\ At("generate")
  /\ Raise("generate")
  /\ UNCHANGED <<envVars, preVars, trainVars>>

NewPreprocessor ==
  /\ At("new_preprocessor")
  /\ processor' = NewProcessor
  /\ Return("new_preprocessor")
  /\ UNCHANGED <<envVars, feature_columns, disk_processed, trainVars>>

\* oracledb.connect: the database answers or the call raises
ConnectDb ==
  /\ At("connect_db")
  /\ \E ok \in BOOLEAN :
       IF ok
       THEN processor' = connect_db(processor) /\ Return("connect_db")
       ELSE processor' = processor /\ Raise("connect_db")
  /\ UNCHANGED <<envVars, feature_columns, disk_processed, trainVars>>

LoadData ==
  /\ At("load_data")
  /\ IF load_data_raises(processor) \/ query_raises(schema_missing)
     THEN processor' = processor /\ Raise("load_data")
     ELSE processor' = load_data(processor, db) /\ Return("load_data")
  /\ UNCHANGED <<envVars, feature_columns, disk_processed, trainVars>>

CleanData ==
  /\ At("clean_data")
  /\ IF clean_data_raises(processor)
     THEN processor' = processor /\ Raise("clean_data")
     ELSE /\ processor' = do_clean_data(processor, pandas_cow)
          /\ Return("clean_data")
  /\ UNCHANGED <<envVars, feature_columns, disk_processed, trainVars>>

\* on a table without rows the row-wise apply may hand back a frame that
\* cannot be assigned to one column: the call returns or raises
EngineerFeatures ==
  /\ At("engineer_features")
  /\ \E lib_ok \in BOOLEAN :
       IF engineer_features_raises(processor)
          \/ (processor.df_clean = <<>> /\ ~lib_ok)
       THEN processor' = processor /\ Raise("engineer_features")
       ELSE /\ processor' = do_engineer_features(processor)
            /\ Return("engineer_features")
  /\ UNCHANGED <<envVars, feature_columns, disk_processed, trainVars>>

CreateAggregatedFeatures ==
  /\ At("create_aggregated_features")
  /\ IF create_aggregated_features_raises(processor)
     THEN processor' = processor /\ Raise("create_aggregated_features")
     ELSE /\ processor' = do_create_aggregated_features(processor)
          /\ Return("create_aggregated_features")
  /\ UNCHANGED <<envVars, feature_columns, disk_processed, trainVars>>

PrepareMlFeatures ==
  /\ At("prepare_ml_features")
  /\ IF prepare_ml_features_raises(processor)
     THEN /\ UNCHANGED <<processor, feature_columns>>
          /\ Raise("prepare_ml_features")
     ELSE /\ processor' = do_prepare_ml_features(processor)
          /\ feature_columns' =
               prepare_ml_features(processor.df_features).feature_columns
          /\ Return("prepare_ml_features")
  /\ UNCHANGED <<envVars, disk_processed, trainVars>>

SaveProcessedData ==
  /\ At("save_processed_data")
  /\ IF save_processed_data_raises(processor)
     THEN disk_processed' = disk_processed /\ Raise("save_processed_data")
     ELSE /\ disk_processed' = save_processed_data(processor)
          /\ Return("save_processed_data")
  /\ UNCHANGED <<envVars, processor, feature_columns, trainVars>>

GetDataSummary ==
  /\ At("get_data_summary")
  /\ Return("get_data_summary")
  /\ UNCHANGED <<envVars, preVars, trainVars>>

\* ------------------------------------------- CrimeModelTrainer: the calls
\* the rows of df_ml handed to a fit: X is df_ml[feature_cols] and y the
\* target column, row by row; case_id names the record of each row
FitRows(t, target) ==
  [i \in 1..Len(t.rows) |->
     [case_id |-> t.rows[i].case_id, y |-> t.rows[i][target]]]

AddColumns(t, cols) ==
  Table(t.columns \o SelectSeq(cols, LAMBDA c : c \notin Range(t.columns)),
        t.rows)

Fitted(tr, name, res) ==
  [tr EXCEPT !.models = @ \cup {name},
             !.results = DictPut(@, name, res)]

NewTrainerCall ==
  /\ At("new_trainer")
  /\ trainer' = NewTrainer
  /\ Return("new_trainer")
  /\ UNCHANGED <<envVars, preVars, disk_models>>

\* pd.read_csv of the three files of data/processed
TrainerLoadData ==
  /\ At("trainer_load_data")
  /\ IF ~disk_processed.present
     THEN trainer' = trainer /\ Raise("trainer_load_data")
     ELSE /\ trainer' =
               [trainer EXCEPT
                  !.df_features = csv_round_trip(disk_processed.features),
                  !.df_ml = csv_round_trip(disk_processed.ml),
                  !.df_grid = csv_round_trip(disk_processed.grid)]
          /\ Return("trainer_load_data")
  /\ UNCHANGED <<envVars, preVars, disk_models>>

\* train_test_split, cross_val_score and fit return or raise (lib_ok)
TrainCrime ==
  /\ At("train_crime_prediction_model")
  /\ LET cols == select_features(trainer.df_ml.columns, leak_cols_crime)
         seen == [trainer EXCEPT !.fit_input =
                    DictPut(@, "crime_prediction",
                            [feature_cols |-> cols,
                             rows |-> FitRows(trainer.df_ml,
                                              "target_crime_type")])]
     IN  \E lib_ok \in BOOLEAN :
           IF lib_ok
           THEN /\ trainer' = Fitted(seen, "crime_prediction", results_crime)
                /\ Return("train_crime_prediction_model")
           ELSE /\ trainer' = seen
                /\ Raise("train_crime_prediction_model")
  /\ UNCHANGED <<envVars, preVars, disk_models>>

\* every row of df_ml goes into X and y; a NaN in y makes the fit or the
\* error metric raise
TrainSeverity ==
  /\ At("train_severity_prediction_model")
  /\ LET cols == select_features(trainer.df_ml.columns, leak_cols_severity)
         rows == FitRows(trainer.df_ml, "target_severity")
         seen == [trainer EXCEPT !.fit_input =
                    DictPut(@, "severity_prediction",
                            [feature_cols |-> cols, rows |-> rows])]
     IN  \E lib_ok \in BOOLEAN :
           IF lib_ok /\ \A i \in 1..Len(rows) : ~IsNaN(rows[i].y)
           THEN /\ trainer' =
                     Fitted(seen, "severity_prediction", results_severity)
                /\ Return("train_severity_prediction_model")
           ELSE /\ trainer' = seen
                /\ Raise("train_severity_prediction_model")
  /\ UNCHANGED <<envVars, preVars, disk_models>>

Sweeps(n_samples) ==
  {sw \in [1..Len(k_range(n_samples)) -> SweepOutcomes(n_samples, 10)] :
     \A i \in 1..Len(sw) :
        sw[i] \in SweepOutcomes(n_samples, k_range(n_samples)[i])}

TrainHotspot ==
  /\ At("train_hotspot_clustering_model")
  /\ LET n == Len(trainer.df_grid.rows)
     IN  \E sw \in Sweeps(n) :
           IF hotspot_raises(n, sw)
           THEN /\ trainer' = trainer
                /\ Raise("train_hotspot_clustering_model")
           ELSE /\ trainer' =
                     [Fitted(trainer, "hotspot_clustering", results_hotspot)
                        EXCEPT !.optimal_k = optimal_k_of(n, sw),
                               !.df_grid = AddColumns(@, <<"cluster">>)]
                /\ Return("train_hotspot_clustering_model")
  /\ UNCHANGED <<envVars, preVars, disk_models>>

\* the model is stored, nothing is put into self.results
TrainDbscan ==
  /\ At("train_dbscan_clustering")
  /\ \E lib_ok \in BOOLEAN :
       IF lib_ok
       THEN /\ trainer' =
                 [trainer EXCEPT
                    !.models = @ \cup {"dbscan_clustering"},
                    !.df_grid = AddColumns(@, <<"dbscan_cluster">>)]
            /\ Return("train_dbscan_clustering")
       ELSE /\ trainer' = trainer
            /\ Raise("train_dbscan_clustering")
  /\ UNCHANGED <<envVars, preVars, disk_models>>

\* the values are handed back last row first
anomaly_predictions_mut(ml) ==
  [i \in 1..Len(ml.rows) |->
     [of_case |-> ml.rows[Len(ml.rows) + 1 - i].case_id]]

\* model.predict(X) and model.score_samples(X): one value per row of X, in
\* the order of the rows; a value is named by the case whose row it was
\* computed from
anomaly_predictions(ml) ==
  [i \in 1..Len(ml.rows) |-> [of_case |-> ml.rows[i].case_id]]

\* the rows are taken over without their columns
add_anomaly_columns_mut(t, preds) ==
  Table(<<"is_anomaly", "anomaly_score">>,
        [i \in 1..Len(t.rows) |->
           [is_anomaly |-> preds[i], anomaly_score |-> preds[i]]])

\* self.df_features['is_anomaly'] = predictions == -1 and
\* self.df_features['anomaly_score'] = anomaly_scores: an array is assigned
\* by position, the i-th value to the i-th row
add_anomaly_columns(t, preds) ==
  Table(AddColumns(t, <<"is_anomaly", "anomaly_score">>).columns,
        [i \in 1..Len(t.rows) |->
           [is_anomaly |-> preds[i], anomaly_score |-> preds[i]]
             @@ t.rows[i]])

\* an array of another length than the frame cannot be assigned
add_anomaly_raises(t, preds) == Len(t.rows) # Len(preds)

TrainAnomaly ==
  /\ At("train_anomaly_detection_model")
  /\ LET cols == select_features(trainer.df_ml.columns, leak_cols_anomaly)
         seen == [trainer EXCEPT !.fit_input =
                    DictPut(@, "anomaly_detection",
                            [feature_cols |-> cols,
                             rows |-> [i \in 1..Len(trainer.df_ml.rows) |->
                                [case_id |-> trainer.df_ml.rows[i].case_id]]])]
         preds == anomaly_predictions(trainer.df_ml)
     IN  \E lib_ok \in BOOLEAN :
           IF lib_ok /\ ~add_anomaly_raises(trainer.df_features, preds)
           THEN /\ trainer' =
                     [Fitted(seen, "anomaly_detection", results_anomaly)
                        EXCEPT !.df_features = add_anomaly_columns(@, preds)]
                /\ Return("train_anomaly_detection_model")
           ELSE /\ trainer' = seen
                /\ Raise("train_anomaly_detection_model")
  /\ UNCHANGED <<envVars, preVars, disk_models>>

TrainKde ==
  /\ At("train_kernel_density_estimator")
  /\ \E lib_ok \in BOOLEAN :
       IF lib_ok
       THEN /\ trainer' = Fitted(trainer, "kernel_density", results_kde)
            /\ Return("train_kernel_density_estimator")
       ELSE /\ trainer' = trainer
            /\ Raise("train_kernel_density_estimator")
  /\ UNCHANGED <<envVars, preVars, disk_models>>

\* one .pkl per entry of self.models, model_results.json, the two tables
save_all_models(tr, disk) ==
  [present |-> TRUE,
   pkl |-> disk.pkl \cup tr.models,
   model_results |-> results_serializable(tr.results),
   crimes_with_predictions |-> tr.df_features,
   grid_with_clusters |-> tr.df_grid]

SaveAllModels ==
  /\ At("save_all_models")
  /\ disk_models' = save_all_models(trainer, disk_models)
  /\ Return("save_all_models")
  /\ UNCHANGED <<envVars, preVars, trainer>>

GeneratePerformanceReport ==
  /\ At("generate_performance_report")
  /\ Return("generate_performance_report")
  /\ UNCHANGED <<envVars, preVars, trainVars>>

\* CrimeVisualizer.load_data reads the two tables of data/models; the
\* plotting calls return or raise
Visualize ==
  /\ At("visualize")
  /\ \E lib_ok \in BOOLEAN :
       IF disk_models.present /\ lib_ok
       THEN Return("visualize") ELSE Raise("visualize")
  /\ UNCHANGED <<envVars, preVars, trainVars>>

Next ==
  \/ StartMain
  \/ StartPreprocessorMain
  \/ StartTrainerMain
  \/ Generate
  \/ NewPreprocessor
  \/ ConnectDb
  \/ LoadData
  \/ CleanData
  \/ EngineerFeatures
  \/ CreateAggregatedFeatures
  \/ PrepareMlFeatures
  \/ SaveProcessedData
  \/ GetDataSummary
  \/ NewTrainerCall
  \/ TrainerLoadData
  \/ TrainCrime
  \/ TrainSeverity
  \/ TrainHotspot
  \/ TrainDbscan
  \/ TrainAnomaly
  \/ TrainKde
  \/ SaveAllModels
  \/ GeneratePerformanceReport
  \/ Visualize

Spec == Init /\ [][Next]_vars

\* ================================ one preprocessor object, called freely
\* A client holds one CrimeDataPreprocessor and calls its methods in any
\* order the attributes allow; the case store may change between the calls.
\* A call that raises leaves the object as it was.
apiFrame ==
  <<pandas_cow, schema_missing, disk_processed, disk_models, entry,
    steps_arg, run_steps, pc, status, log, failed_call, trainer, hotspot,
    dbscan, connVars, tableVars>>

\* the dashboard registers a complaint: one more row in the case store
DbChange ==
  /\ schema_missing = "none"
  /\ db_changes < MaxDbChanges
  /\ Len(db) < MaxRows
  /\ \E r \in Pool : db' = Append(db, r)
  /\ db_changes' = db_changes + 1
  /\ UNCHANGED <<apiFrame, processor, feature_columns>>

ApiConnectDb ==
  /\ ~Has(processor, "conn")
  /\ processor' = connect_db(processor)
  /\ UNCHANGED <<apiFrame, db, db_changes, feature_columns>>

ApiLoadData ==
  /\ ~load_data_raises(processor)
  /\ ~query_raises(schema_missing)
  /\ processor' = load_data(processor, db)
  /\ UNCHANGED <<apiFrame, db, db_changes, feature_columns>>

ApiCleanData ==
  /\ ~clean_data_raises(processor)
  /\ processor' = do_clean_data(processor, pandas_cow)
  /\ UNCHANGED <<apiFrame, db, db_changes, feature_columns>>

ApiEngineerFeatures ==
  /\ ~engineer_features_raises(processor)
  /\ processor' = do_engineer_features(processor)
  /\ UNCHANGED <<apiFrame, db, db_changes, feature_columns>>

ApiCreateAggregatedFeatures ==
  /\ ~create_aggregated_features_raises(processor)
  /\ processor' = do_create_aggregated_features(processor)
  /\ UNCHANGED <<apiFrame, db, db_changes, feature_columns>>

ApiPrepareMlFeatures ==
  /\ ~prepare_ml_features_raises(processor)
  /\ processor' = do_prepare_ml_features(processor)
  /\ feature_columns' =
       prepare_ml_features(processor.df_features).feature_columns
  /\ UNCHANGED <<apiFrame, db, db_changes>>

NextAPI ==
  \/ DbChange
  \/ ApiConnectDb
  \/ ApiLoadData
  \/ ApiCleanData
  \/ ApiEngineerFeatures
  \/ ApiCreateAggregatedFeatures
  \/ ApiPrepareMlFeatures

SpecAPI == Init /\ [][NextAPI]_vars

\* ============================ train_hotspot_clustering_model, step by step
\* The call on a grid table of n_samples rows, one step per statement group:
\* the scaling, each pass of the loop over k_range, the choice of optimal_k,
\* the final fit. What KMeans and silhouette_score give is chosen freely.
MaxSamples == 5

sweepFrame ==
  <<db, db_changes, pandas_cow, schema_missing, disk_processed, disk_models,
    entry, steps_arg, run_steps, pc, status, log, failed_call, processor,
    feature_columns, trainer, dbscan, connVars, tableVars>>

InitSweep ==
  /\ db = <<>>
  /\ db_changes = 0
  /\ pandas_cow = FALSE
  /\ schema_missing = "none"
  /\ Idle
  /\ hotspot \in {NewSweep(n) : n \in 0..MaxSamples}
  /\ dbscan = NoDbscan
  /\ NoDashboard

\* scaler.fit_transform(X) rejects a table without rows
SweepScale ==
  /\ hotspot.phase = "start"
  /\ hotspot' = [hotspot EXCEPT !.phase =
                    IF hotspot.n_samples = 0 THEN "raised" ELSE "loop"]
  /\ UNCHANGED sweepFrame

\* one pass of "for k in k_range": the fit, then the score unless all rows
\* got one label
SweepFit ==
  /\ hotspot.phase = "loop"
  /\ Len(hotspot.fitted) < Len(k_range(hotspot.n_samples))
  /\ LET n == hotspot.n_samples
         k == k_range(n)[Len(hotspot.fitted) + 1]
     IN  IF n < k
         THEN hotspot' = [hotspot EXCEPT !.fitted = Append(@, k),
                                         !.phase = "raised"]
         ELSE \E o \in SweepOutcomes(n, k) :
                hotspot' =
                  [hotspot EXCEPT
                     !.fitted = Append(@, k),
                     !.sw = Append(@, o),
                     !.phase = IF sweep_raises(n, Append(hotspot.sw, o))
                               THEN "raised" ELSE "loop"]
  /\ UNCHANGED sweepFrame

\* optimal_k = k_range[np.argmax(silhouette_scores)]
SweepChoose ==
  /\ hotspot.phase = "loop"
  /\ Len(hotspot.fitted) = Len(k_range(hotspot.n_samples))
  /\ IF silhouette_scores(hotspot.sw) = <<>>
     THEN hotspot' = [hotspot EXCEPT !.phase = "raised"]
     ELSE hotspot' =
            [hotspot EXCEPT
               !.optimal_k = optimal_k_of(hotspot.n_samples, hotspot.sw),
               !.phase = "chosen"]
  /\ UNCHANGED sweepFrame

\* the final fit at optimal_k gives the labels the loop got for that k (same
\* data, same random_state); its silhouette_score raises on a single label
SweepFinal ==
  /\ hotspot.phase = "chosen"
  /\ hotspot' = [hotspot EXCEPT !.phase =
                    IF hotspot_raises(hotspot.n_samples, hotspot.sw)
                    THEN "raised" ELSE "done"]
  /\ UNCHANGED sweepFrame

NextSweep ==
  \/ SweepScale
  \/ SweepFit
  \/ SweepChoose
  \/ SweepFinal

SpecSweep == InitSweep /\ [][NextSweep]_vars

\* =============================== engineer_features over the hours of a day
\* One preprocessor that holds a cleaned table of up to MaxHourRows records,
\* each reported at any hour of the day; engineer_features is called on it.
MaxHourRows == 2

\* incident_datetime.dt.hour
Hours == 0..23

\* in-window records of different cases, each at any hour
HourTables ==
  LET base == <<Raw(1, Int2Rat(130827), Int2Rat(802707), "Central", "TH",
                    "Moderate", 9, Int2Rat(30)),
                Raw(4, Int2Rat(130460), Int2Rat(802824), "East", "DR",
                    "Critical", 21, Int2Rat(22)),
                Raw(2, Int2Rat(125000), Int2Rat(808000), "South", "AS",
                    "Serious", 21, Int2Rat(45))>>
  IN  UNION {{[i \in 1..k |-> [base[i] EXCEPT !.hour = h[i]]] :
                h \in [1..k -> Hours]} : k \in 1..Min(MaxHourRows, Len(base))}

InitHours ==
  /\ db \in HourTables
  /\ db_changes = 0
  /\ pandas_cow = FALSE
  /\ schema_missing = "none"
  /\ disk_processed = NoProcessed
  /\ disk_models = NoModels
  /\ entry = "none"
  /\ steps_arg = NoArg
  /\ run_steps = {}
  /\ pc = 1
  /\ status = "idle"
  /\ log = <<>>
  /\ failed_call = ""
  /\ processor =
       do_clean_data(load_data(connect_db(NewProcessor), db), pandas_cow)
  /\ feature_columns = <<>>
  /\ trainer = NewTrainer
  /\ hotspot = NoSweep
  /\ dbscan = NoDbscan
  /\ NoDashboard

NextHours == ApiEngineerFeatures

SpecHours == InitHours /\ [][NextHours]_vars

\* ================================= train_dbscan_clustering, step by step
\* The call on a grid table with one row per label: the fit, the two counts,
\* the assignment of the column. The labels DBSCAN gives are chosen freely
\* among noise (-1) and the cluster numbers 0..MaxLabel.
MaxCells == 4
MaxLabel == 1

dbscanFrame ==
  <<db, db_changes, pandas_cow, schema_missing, disk_processed, disk_models,
    entry, steps_arg, run_steps, pc, status, log, failed_call, processor,
    feature_columns, trainer, hotspot, connVars, tableVars>>

InitDbscan ==
  /\ db = <<>>
  /\ db_changes = 0
  /\ pandas_cow = FALSE
  /\ schema_missing = "none"
  /\ Idle
  /\ hotspot = NoSweep
  /\ dbscan \in {NewDbscan(l) : l \in SeqsUpTo(-1..MaxLabel, MaxCells)}
  /\ NoDashboard

\* len(set(labels)) without the subtraction of the noise label
n_clusters_mut(labels) == Cardinality(Range(labels))

\* len(set(labels)) - (1 if -1 in labels else 0)
n_clusters(labels) ==
  Cardinality(Range(labels)) - (IF -1 \in Range(labels) THEN 1 ELSE 0)

\* list(labels).count(-1)
n_noise(labels) == Cardinality({i \in 1..Len(labels) : labels[i] = -1})

\* model.fit_predict(X, sample_weight=weights): a table without rows is
\* rejected, otherwise one label per row
DbscanFit ==
  /\ dbscan.phase = "start"
  /\ dbscan' = [dbscan EXCEPT !.phase =
                   IF dbscan.labels = <<>> THEN "raised" ELSE "fitted"]
  /\ UNCHANGED dbscanFrame

\* the two counts that the call prints
DbscanCount ==
  /\ dbscan.phase = "fitted"
  /\ dbscan' = [dbscan EXCEPT !.n_clusters = n_clusters(dbscan.labels),
                              !.n_noise = n_noise(dbscan.labels),
                              !.phase = "counted"]
  /\ UNCHANGED dbscanFrame

\* self.df_grid['dbscan_cluster'] = labels: by position
DbscanAssign ==
  /\ dbscan.phase = "counted"
  /\ dbscan' = [dbscan EXCEPT !.dbscan_cluster = dbscan.labels,
                              !.phase = "done"]
  /\ UNCHANGED dbscanFrame

NextDbscan ==
  \/ DbscanFit
  \/ DbscanCount
  \/ DbscanAssign

SpecDbscan == InitDbscan /\ [][NextDbscan]_vars

\* ===================================== run_pipeline, called with any steps
\* run_pipeline is called with 'all', with one name, or with a list of names
\* in any order, over a case store of three records that the preprocessing
\* accepts; the two scripts may run between the calls, so that the files a
\* step reads can be there. A name is a step name, 'all', or 'quick', which
\* names no step.
MaxListLen == 2

StepNames == Range(StepOrder) \cup {"all", "quick"}

StepsArgs ==
  {StrArg(x) : x \in StepNames}
    \cup {ListArg(l) : l \in SeqsUpTo(StepNames, MaxListLen)}

PoolCase(id) == CHOOSE r \in Pool : r.case_id = id /\ ~IsNaN(r.latitude)

InitSteps ==
  /\ db = <<PoolCase(1), PoolCase(2), PoolCase(4)>>
  /\ db_changes = 0
  /\ pandas_cow = FALSE
  /\ schema_missing = "none"
  /\ Idle
  /\ hotspot = NoSweep
  /\ dbscan = NoDbscan
  /\ NoDashboard

\* run_pipeline(steps)
StartPipeline ==
  \E arg \in StepsArgs :
    /\ StartRun("main", Range(run_steps_of(arg)))
    /\ steps_arg' = arg

NextSteps == StartPipeline \/ Next

SpecSteps == InitSteps /\ [][NextSteps]_vars

\* ===================================================== the dashboard pages
\* One browser session reruns the pages of the dashboard against the case
\* store. The server may drop a connection between two reruns; whether it
\* accepts a connection or a statement is chosen freely. The menu actions of
\* main_backend.py work through stored procedures and are left out: of that
\* script only the connection it takes and closes is followed.
MaxConns == 3
MaxCases == 2

\* status_map of engineer_features
status_map ==
  ("Reported" :> 1) @@ ("Assigned" :> 2) @@ ("Under Investigation" :> 3)
    @@ ("Pending" :> 4) @@ ("Closed" :> 5) @@ ("Cold Case" :> 6)

\* the active CID officers the assignment page offers
Officers == {"CID1", "CID2"}

CaseRow(st, o) == [status |-> st, officer |-> o]

\* cases waiting for an officer and cases waiting for closure
SeedRows == {CaseRow("Reported", "none"), CaseRow("Closed", "none")}

dashFrame ==
  <<db, db_changes, pandas_cow, schema_missing, disk_processed, disk_models,
    runVars, processor, feature_columns, trainer, hotspot, dbscan>>

InitDash ==
  /\ db = <<>>
  /\ db_changes = 0
  /\ pandas_cow = FALSE
  /\ schema_missing = "none"
  /\ Idle
  /\ hotspot = NoSweep
  /\ dbscan = NoDbscan
  /\ NewSession
  /\ case_table \in SeqsUpTo(SeedRows, MaxCases)
  /\ history = {}

Session ==
  [session_conn |-> session_conn, conn_state |-> conn_state,
   opened |-> opened, result |-> returned]

Data == [case_table |-> case_table, history |-> history]

\* psycopg2.connect returns a connection or raises
ConnectOutcomes(s) == IF s.opened < MaxConns THEN BOOLEAN ELSE {FALSE}

\* with st.session_state.db_conn.cursor() as cur: cur.execute("SELECT 1;")
\* raises on None, on a closed connection and on a lost one
answers(s) ==
  s.session_conn \notin {KeyAbsent, NoConn} /\ s.conn_state = "open"

connect(s, connect_ok) ==
  IF connect_ok
  THEN [session_conn |-> s.opened + 1, conn_state |-> "open",
        opened |-> s.opened + 1, result |-> s.opened + 1]
  ELSE [session_conn |-> NoConn, conn_state |-> "none",
        opened |-> s.opened, result |-> NoConn]

\* the stored connection is handed out without the test query
get_connection_mut(s, connect_ok) ==
  IF s.session_conn \notin {KeyAbsent, NoConn}
  THEN [s EXCEPT !.result = s.session_conn]
  ELSE connect(s, connect_ok)

get_connection(s, connect_ok) ==
  IF s.session_conn # KeyAbsent /\ answers(s)
  THEN [s EXCEPT !.result = s.session_conn]
  ELSE connect(s, connect_ok)

\* done is the case store once the statement has run and is committed; a
\* statement that raises is rolled back
execute_query(s, d, connect_ok, stmt_ok, done) ==
  LET g == get_connection(s, connect_ok)
  IN  IF g.result = NoConn
      THEN [session |-> g, data |-> d, success |-> FALSE]
      ELSE IF stmt_ok
           THEN [session |-> g, data |-> done, success |-> TRUE]
           ELSE [session |-> g, data |-> d, success |-> FALSE]

SetSession(g) ==
  /\ session_conn' = g.session_conn
  /\ conn_state' = g.conn_state
  /\ opened' = g.opened
  /\ returned' = g.result

SetData(d) ==
  /\ case_table' = d.case_table
  /\ history' = d.history

\* INSERT INTO CASE_TABLE (...) VALUES (..., 'REPORTED')
insert_case(d) ==
  [d EXCEPT !.case_table = Append(@, CaseRow("REPORTED", "none"))]

\* UPDATE CASE_TABLE SET CID_OFFICER_STAFFID = :1, STATUS = 'Assigned' ...
update_assigned(d, i, o) ==
  [d EXCEPT !.case_table[i] = CaseRow("Assigned", o)]

\* INSERT INTO CASE_ASSIGNMENT_HISTORY ... VALUES (:1, NULL, :2, :3, 'Active')
insert_history(d, i, o) ==
  [d EXCEPT !.history =
     @ \cup {[case_id |-> i, assigned_to |-> o, status |-> "Active"]}]

\* UPDATE CASE_TABLE SET STATUS = 'CLOSED', CLOSED_AT = SYSTIMESTAMP ...
update_closed(d, i) ==
  [d EXCEPT !.case_table[i].status = "CLOSED"]

\* a page is rerun with no button pressed: it takes the connection and lists
ViewPage ==
  /\ caller = "none"
  /\ \E c1 \in ConnectOutcomes(Session) :
       SetSession(get_connection(Session, c1))
  /\ UNCHANGED <<caller, tableVars, dashFrame>>

\* complaint_registration.app with REGISTER CASE pressed, all fields filled
RegisterComplaint ==
  /\ caller = "none"
  /\ Len(case_table) < MaxCases
  /\ \E c1 \in ConnectOutcomes(Session), stmt_ok \in BOOLEAN :
       LET g == get_connection(Session, c1)
       IN  IF g.result = NoConn
           THEN SetSession(g) /\ UNCHANGED tableVars
           ELSE \E c2 \in ConnectOutcomes(g) :
                  LET e == execute_query(g, Data, c2, stmt_ok,
                                         insert_case(Data))
                  IN  SetSession(e.session) /\ SetData(e.data)
  /\ UNCHANGED <<caller, dashFrame>>

\* the two execute_query calls of the ASSIGN CASE button
assign(s, d, i, o, c2, update_ok, c3, history_ok) ==
  LET u == execute_query(s, d, c2, update_ok, update_assigned(d, i, o))
  IN  IF u.success
      THEN execute_query(u.session, u.data, c3, history_ok,
                         insert_history(u.data, i, o))
      ELSE u

\* case_assignment.app with ASSIGN CASE pressed for a listed case, an
\* officer selected and a reason given
AssignCase ==
  /\ caller = "none"
  /\ \E c1 \in ConnectOutcomes(Session) :
       LET g == get_connection(Session, c1)
       IN  IF g.result = NoConn
           THEN SetSession(g) /\ UNCHANGED tableVars
           ELSE \E i \in 1..Len(case_table), o \in Officers,
                   c2, c3 \in ConnectOutcomes(g),
                   update_ok, history_ok \in BOOLEAN :
                  /\ case_table[i].status = "Reported"
                  /\ LET e == assign(g, Data, i, o, c2, update_ok, c3,
                                     history_ok)
                     IN  SetSession(e.session) /\ SetData(e.data)
  /\ UNCHANGED <<caller, dashFrame>>

\* case_closure.app with CLOSE CASE pressed for a listed case
CloseCase ==
  /\ caller = "none"
  /\ \E c1 \in ConnectOutcomes(Session) :
       LET g == get_connection(Session, c1)
       IN  IF g.result = NoConn
           THEN SetSession(g) /\ UNCHANGED tableVars
           ELSE \E i \in 1..Len(case_table), c2 \in ConnectOutcomes(g),
                   stmt_ok \in BOOLEAN :
                  /\ case_table[i].status = "Closed"
                  /\ LET e == execute_query(g, Data, c2, stmt_ok,
                                            update_closed(Data, i))
                     IN  SetSession(e.session) /\ SetData(e.data)
  /\ UNCHANGED <<caller, dashFrame>>

\* main_backend.py is rerun: conn = get_connection()
BackendStart ==
  /\ caller = "none"
  /\ \E c1 \in ConnectOutcomes(Session) :
       LET g == get_connection(Session, c1)
       IN  /\ SetSession(g)
           /\ caller' = IF g.result = NoConn THEN "none" ELSE "backend"
  /\ UNCHANGED <<tableVars, dashFrame>>

\* the end of main_backend.py: cur.close(), conn.close()
BackendCleanup ==
  /\ caller = "backend"
  /\ conn_state' = "closed"
  /\ caller' = "none"
  /\ UNCHANGED <<session_conn, opened, returned, tableVars, dashFrame>>

\* the server or the network drops the connection the session holds
ConnLost ==
  /\ conn_state = "open"
  /\ conn_state' = "broken"
  /\ UNCHANGED <<session_conn, opened, returned, caller, tableVars,
                 dashFrame>>

NextDash ==
  \/ ViewPage
  \/ RegisterComplaint
  \/ AssignCase
  \/ CloseCase
  \/ BackendStart
  \/ BackendCleanup
  \/ ConnLost

SpecDash == InitDash /\ [][NextDash]_vars

\* ================================================================ claims
Started(c) == c \in Range(log)
Completed(c) == Started(c) /\ failed_call # c
Ended == status \in {"ok", "failed"}

FitCalls ==
  {"train_crime_prediction_model", "train_severity_prediction_model",
   "train_hotspot_clustering_model", "train_dbscan_clustering",
   "train_anomaly_detection_model", "train_kernel_density_estimator"}

ForbiddenFeatures ==
  {"case_id", "target_severity", "target_crime_type", "target_risk",
   "severity_score", "priority_score", "crime_type_code_encoded"}

\* C1: the feature_columns returned by prepare_ml_features share no column
\* with the case id, the three targets and the targets' source columns.
C1_FeatureColumnsLeakFree ==
  Range(feature_columns) \cap ForbiddenFeatures = {}

\* C2: when a fit of a training run has raised and the run has ended, every
\* one of the six procedures was still started (the run did not halt at the
\* failed fit) and the failed model is not in the bundle.
ModelOf(c) ==
  CASE c = "train_crime_prediction_model" -> "crime_prediction"
    [] c = "train_severity_prediction_model" -> "severity_prediction"
    [] c = "train_hotspot_clustering_model" -> "hotspot_clustering"
    [] c = "train_dbscan_clustering" -> "dbscan_clustering"
    [] c = "train_anomaly_detection_model" -> "anomaly_detection"
    [] c = "train_kernel_density_estimator" -> "kernel_density"

C2_IndependentFits ==
  (Ended /\ failed_call \in FitCalls) =>
     /\ \A c \in FitCalls : Started(c)
     /\ ModelOf(failed_call) \notin trainer.models

\* C3: a run that has reached the training stage and has ended has executed
\* save_all_models, which wrote the artifacts of every fitted model and the
\* results manifest.
C3_PersistenceAlwaysRuns ==
  (Ended /\ Started("train_crime_prediction_model")) =>
     /\ Completed("save_all_models")
     /\ disk_models.present
     /\ trainer.models \subseteq disk_models.pkl

\* C4: a record without a severity_score has no substitute value in the
\* severity_score column of the feature matrix and is not among the rows
\* (X, y) handed to the severity regressor.
C4_UndefinedTargetExcluded ==
  /\ \A i \in 1..Len(processor.ml_features.rows) :
        IsNaN(processor.ml_features.rows[i].target_severity) =>
           IsNaN(processor.ml_features.rows[i].x["severity_score"])
  /\ "severity_prediction" \in DOMAIN trainer.fit_input =>
        \A i \in 1..Len(trainer.fit_input["severity_prediction"].rows) :
           ~IsNaN(trainer.fit_input["severity_prediction"].rows[i].y)

\* C5: the feature columns the classifier, the regressor and the anomaly
\* detector fit on contain no forbidden column, and the procedures that
\* have run used the same list of columns.
C5_TrainingLeakFree ==
  \A p \in DOMAIN trainer.fit_input :
     /\ Range(trainer.fit_input[p].feature_cols) \cap ForbiddenFeatures = {}
     /\ \A q \in DOMAIN trainer.fit_input :
          trainer.fit_input[p].feature_cols = trainer.fit_input[q].feature_cols

C5_Witness ==
  /\ DOMAIN trainer.fit_input =
       {"crime_prediction", "severity_prediction", "anomaly_detection"}
  /\ Len(trainer.fit_input["anomaly_detection"].feature_cols) > 0
  /\ "severity_score" \in Range(trainer.df_ml.columns)

\* C6: every cleaned record lies in the window 12.5..13.5 by 79.8..80.8, the
\* bounds included; a record of the de-duplicated, filled table is dropped
\* exactly when it lies outside, and clean_data does not raise.
C6_Inside(r) ==
  /\ r.latitude.d > 0 /\ r.longitude.d > 0
  /\ 125000 * r.latitude.d <= r.latitude.n
  /\ r.latitude.n <= 135000 * r.latitude.d
  /\ 798000 * r.longitude.d <= r.longitude.n
  /\ r.longitude.n <= 808000 * r.longitude.d

C6_Candidates ==
  fill_missing(drop_duplicates(processor.df_crimes), pandas_cow)

C6_ValidityWindow ==
  /\ failed_call # "clean_data"
  /\ Has(processor, "df_clean") =>
       /\ \A i \in 1..Len(processor.df_clean) : C6_Inside(processor.df_clean[i])
       /\ processor.df_clean = SelectSeq(C6_Candidates, C6_Inside)

C6_Witness ==
  /\ Has(processor, "df_clean")
  /\ Len(processor.df_clean) < Len(C6_Candidates)
  /\ \E i \in 1..Len(processor.df_clean) :
        /\ processor.df_clean[i].latitude = Int2Rat(125000)
        /\ processor.df_clean[i].longitude = Int2Rat(808000)

\* C7: the stages of a run start in the order clean, engineer, aggregate,
\* build-matrix, train, persist (either of the two save calls); a stage
\* starts only when the stages before it have completed, and nothing starts
\* after a stage has failed.
StageRank(c) ==
  CASE c = "clean_data" -> 1
    [] c = "engineer_features" -> 2
    [] c = "create_aggregated_features" -> 3
    [] c = "prepare_ml_features" -> 4
    [] c \in FitCalls -> 5
    [] c \in {"save_processed_data", "save_all_models"} -> 6
    [] OTHER -> 0

PreprocessStages ==
  {"clean_data", "engineer_features", "create_aggregated_features",
   "prepare_ml_features"}

C7_StageOrder ==
  /\ \A i, j \in 1..Len(log) :
        (i < j /\ StageRank(log[i]) > 0 /\ StageRank(log[j]) > 0) =>
           /\ StageRank(log[i]) <= StageRank(log[j])
           /\ log[i] # log[j]
           /\ failed_call # log[i]
  /\ \A c, e \in PreprocessStages :
        (Started(c) /\ StageRank(e) < StageRank(c)) => Completed(e)
  /\ Started("save_all_models") => \A c \in FitCalls : Completed(c)
  /\ Started("save_processed_data") => \A c \in PreprocessStages : Completed(c)
  /\ (\E c \in FitCalls : Started(c)) =>
        (Started("new_preprocessor") => Completed("prepare_ml_features"))
  /\ failed_call # "" => (status = "failed" /\ log[Len(log)] = failed_call)

C7_Witness ==
  /\ entry = "main"
  /\ Completed("save_all_models")
  /\ disk_processed.present

\* C8: once the encoders are fitted (on a table with rows) no call changes
\* them, and once the scaler is fitted no call changes it.
EncodersFitted ==
  Has(processor, "df_features") /\ processor.df_features # <<>>

ScalerFitted == processor.scaler.n_samples_seen > 0

C8_FitOnce ==
  [][ /\ EncodersFitted =>
           processor'.label_encoders = processor.label_encoders
      /\ ScalerFitted => processor'.scaler = processor.scaler ]_vars

\* C9: after save_all_models the models with an entry in the results
\* manifest are exactly the models of the bundle.
C9_ManifestMatchesBundle ==
  Completed("save_all_models") =>
     DOMAIN disk_models.model_results = trainer.models

\* C10: after save_all_models the manifest holds, for every model with
\* results, exactly the scalar diagnostics: none of feature_importance,
\* cluster_centers, density_grid, lat_grid, lon_grid, and every other key,
\* as a plain int or float.
C10_ArrayKeys ==
  {"feature_importance", "cluster_centers", "density_grid", "lat_grid",
   "lon_grid"}

C10_ManifestScalarsOnly ==
  Completed("save_all_models") =>
     \A m \in DOMAIN trainer.results :
        /\ m \in DOMAIN disk_models.model_results
        /\ DOMAIN disk_models.model_results[m] =
             DOMAIN trainer.results[m] \ C10_ArrayKeys
        /\ \A k \in DOMAIN disk_models.model_results[m] :
              disk_models.model_results[m][k] \in {"int", "float"}

C10_Witness ==
  /\ Completed("save_all_models")
  /\ "feature_importance" \in DOMAIN trainer.results["crime_prediction"]
  /\ "train_score" \in DOMAIN disk_models.model_results["crime_prediction"]
  /\ DOMAIN disk_models.model_results["kernel_density"] = {}

\* ------------------------------------------------------------------ C11
\* C11: when the case store lacks a column the preprocessing query selects,
\* a run that reaches the loading of the records ends failed in that call of
\* the preprocessing stage, its message names the stage (run_pipeline) or the
\* call (script), no processed data, model or manifest is on disk, and no
\* call of the training or visualisation stage was started.
C11_SchemaErrorIsFatal ==
  (schema_missing # "none" /\ Started("load_data") /\ Ended) =>
    /\ status = "failed"
    /\ failed_call = "load_data"
    /\ error_message(entry, failed_call) =
         (IF entry = "main" THEN "Error in preprocessing"
          ELSE "Traceback: load_data")
    /\ ~disk_processed.present
    /\ ~disk_models.present
    /\ \A c \in Range(train_calls) \cup Range(visualize_calls) : ~Started(c)

\* the script connected, and the query itself was rejected
C11_Witness ==
  /\ schema_missing = "latitude"
  /\ entry = "preprocessor_main"
  /\ Has(processor, "conn")
  /\ status = "failed"
  /\ failed_call = "load_data"

\* ------------------------------------------------------------------ C12
\* C12: when a run has ended, normally or with an error, no database
\* connection that was opened during the run is still open.
C12_ConnectionsReleased ==
  Ended => open_connections(processor) = {}

\* ------------------------------------------------------------------ C13
\* the featured table held is the one engineered from the cleaned table held
C13_EngineeredFromClean ==
  /\ Has(processor, "df_features")
  /\ processor.df_features = engineer_features(processor.df_clean)

C14_RiskAt(t, r, s) ==
  risk_score(Int2Rat(s), r.crime_density_score, r.grid_crime_count,
             MaxOf({t[j].grid_crime_count : j \in 1..Len(t)}))

\* C14: every featured record has a risk score >= 0; and of two records with
\* equal density score and equal grid term the one with the larger-or-equal
\* severity score has the larger-or-equal risk score, among the records of
\* the table and against the same record at each of the four severity scores.
C14_RiskSignAndMonotone ==
  LET t == processor.df_features
  IN  \A i \in 1..Len(t) :
        /\ RatGeq(t[i].risk_score, Int2Rat(0))
        /\ \A j \in 1..Len(t) :
             ( /\ t[i].crime_density_score = t[j].crime_density_score
               /\ t[i].grid_crime_count = t[j].grid_crime_count
               /\ RatGeq(t[i].severity_score, t[j].severity_score) )
             => RatGeq(t[i].risk_score, t[j].risk_score)
        /\ \A s \in 1..4 :
             /\ RatGeq(t[i].severity_score, Int2Rat(s))
                  => RatGeq(t[i].risk_score, C14_RiskAt(t, t[i], s))
             /\ RatGeq(Int2Rat(s), t[i].severity_score)
                  => RatGeq(C14_RiskAt(t, t[i], s), t[i].risk_score)

\* ------------------------------------------------------------------ C15
\* the featured records held anywhere: by the preprocessor, on disk from an
\* earlier run, and by the trainer that read them back
C15_Featured ==
  Range(processor.df_features) \cup Range(disk_processed.features.rows)
    \cup Range(trainer.df_features.rows)

\* k is an integer nearest to coord * 100
C15_Nearest(k, coord) ==
  2 * Abs(coord.n - k * 100 * coord.d) <= 100 * coord.d

\* C15: two featured records with the same latitude and longitude, of the
\* same run or of different runs, have the same grid cell; the cell of a
\* record is the pair of integers nearest to latitude * 100 and longitude *
\* 100, so records whose coordinates round alike share it.
C15_GridCellPure ==
  \A r \in C15_Featured :
    /\ C15_Nearest(r.grid_cell[1], r.latitude)
    /\ C15_Nearest(r.grid_cell[2], r.longitude)
    /\ \A o \in C15_Featured :
         (o.latitude = r.latitude /\ o.longitude = r.longitude)
           => o.grid_cell = r.grid_cell

\* a record engineered in this run meets the record of the same place that
\* an earlier run wrote, its latitude * 100 not an integer
C15_Witness ==
  \E r \in Range(processor.df_features) :
    \E o \in Range(disk_processed.features.rows) :
      /\ o.latitude = r.latitude /\ o.longitude = r.longitude
      /\ r.latitude.n % (100 * r.latitude.d) * 2 > 100 * r.latitude.d

\* ------------------------------------------------------------------ C16
\* the four levels and the score the claim gives each
C16_Levels == <<"Minor", "Moderate", "Serious", "Critical">>

\* C16: once engineer_features has run, the featured table has as many
\* records as the cleaned table, and for each of Minor, Moderate, Serious,
\* Critical the featured records with severity score 1, 2, 3, 4 are as many
\* as the cleaned records of that level.
C16_SeverityCountsKept ==
  Has(processor, "df_features") =>
    /\ Len(processor.df_features) = Len(processor.df_clean)
    /\ \A k \in 1..4 :
         CountWhere(processor.df_features,
                    LAMBDA r : r.severity_score = Int2Rat(k))
           = CountWhere(processor.df_clean,
                        LAMBDA r : r.severity_level = C16_Levels[k])

\* three records were engineered, two of them of different mapped levels and
\* one of a level the map does not know
C16_Witness ==
  /\ Has(processor, "df_features")
  /\ Len(processor.df_features) = 3
  /\ \E i, j, k \in 1..3 :
       /\ processor.df_features[i].severity_score = Int2Rat(3)
       /\ processor.df_features[j].severity_score = Int2Rat(4)
       /\ IsNaN(processor.df_features[k].severity_score)

\* ------------------------------------------------------------------ C17
\* the stages after engineer_features that the claim names
C17_LaterStages ==
  {"create_aggregated_features", "prepare_ml_features",
   "train_crime_prediction_model", "train_severity_prediction_model",
   "train_hotspot_clustering_model", "train_dbscan_clustering",
   "train_anomaly_detection_model", "train_kernel_density_estimator",
   "save_all_models"}

\* this step is the call c
C17_Step(c) == log' = Append(log, c)

C17_AnomalyColumns == <<"is_anomaly", "anomaly_score">>

\* the rows of a featured table without the two anomaly columns
C17_Engineered(t) ==
  [i \in 1..Len(t.rows) |->
     [f \in (DOMAIN t.rows[i]) \ Range(C17_AnomalyColumns) |-> t.rows[i][f]]]

\* C17 as stated: no step of a later stage changes, adds or removes a row or
\* a column of the featured table, neither of the preprocessor's table nor of
\* the table the trainer read back.
C17_FeaturedImmutable ==
  [][\A c \in C17_LaterStages : C17_Step(c) =>
       /\ processor'.df_features = processor.df_features
       /\ trainer'.df_features = trainer.df_features]_vars

\* C17 amended: no step of a later stage changes or removes a row or a
\* column that engineer_features made; the one addition is the pair of
\* columns is_anomaly, anomaly_score that a successful
\* train_anomaly_detection_model appends to the table the trainer read back.
C17_EngineeredColumnsImmutable ==
  [][\A c \in C17_LaterStages : C17_Step(c) =>
       /\ processor'.df_features = processor.df_features
       /\ C17_Engineered(trainer'.df_features)
            = C17_Engineered(trainer.df_features)
       /\ \/ trainer'.df_features = trainer.df_features
          \/ /\ c = "train_anomaly_detection_model"
             /\ trainer'.df_features.columns
                  = trainer.df_features.columns \o C17_AnomalyColumns]_vars

\* the anomaly columns were added to a table of at least two records, and
\* the run went on to save the models
C17_Witness ==
  /\ Completed("save_all_models")
  /\ Len(trainer.df_features.rows) >= 2
  /\ trainer.df_features.columns = featured_columns \o C17_AnomalyColumns
  /\ disk_models.crimes_with_predictions = trainer.df_features

\* ------------------------------------------------------------------ C18
\* the passes of the loop that gave a silhouette score
C18_Scored == {i \in 1..Len(hotspot.sw) : hotspot.sw[i].labels > 1}

\* the smallest k whose silhouette score is the largest of the sweep
C18_BestK ==
  LET best == CHOOSE i \in C18_Scored :
                /\ \A j \in C18_Scored : hotspot.sw[j].sil <= hotspot.sw[i].sil
                /\ \A j \in C18_Scored :
                     j < i => hotspot.sw[j].sil < hotspot.sw[i].sil
  IN  hotspot.fitted[best]

\* C18: the optimal_k that train_hotspot_clustering_model chooses after the
\* sweep is the smallest candidate k whose silhouette score is the largest,
\* also when some candidates of the sweep produced no score.
C18_OptimalKIsBest ==
  hotspot.phase \in {"chosen", "done"} => hotspot.optimal_k = C18_BestK

\* ------------------------------------------------------------------ C19
\* C19: every k the sweep hands to KMeans lies in 2..min(10, n_samples - 1),
\* the k are handed over in ascending order, each once, all of them when the
\* sweep is through, and none when n_samples <= 2.
C19_SweepRange ==
  LET n == hotspot.n_samples
      f == hotspot.fitted
  IN  /\ \A i \in 1..Len(f) : 2 <= f[i] /\ f[i] <= Min(10, n - 1)
      /\ \A i, j \in 1..Len(f) : i < j => f[i] < f[j]
      /\ hotspot.phase \in {"chosen", "done"} =>
            Range(f) = 2..Min(10, n - 1)
      /\ n <= 2 => f = <<>>

\* ------------------------------------------------------------------ C20
\* C20: when train_anomaly_detection_model has returned, the feature matrix
\* has exactly one row for each featured record, and the is_anomaly flag and
\* the anomaly_score stored on a featured record are the values computed from
\* the matrix row that carries the record's case_id.
C20_AnomalyOnRightRecord ==
  Completed("train_anomaly_detection_model") =>
    LET f == trainer.df_features.rows
        ml == trainer.df_ml.rows
    IN  /\ Len(ml) = Len(f)
        /\ \A i \in 1..Len(f) :
             /\ Cardinality({j \in 1..Len(ml) : ml[j].case_id = f[i].case_id})
                  = 1
             /\ f[i].is_anomaly.of_case = f[i].case_id
             /\ f[i].anomaly_score.of_case = f[i].case_id

\* the detector ran on a matrix of three rows
C20_Witness ==
  /\ Completed("train_anomaly_detection_model")
  /\ Len(trainer.df_ml.rows) = 3
  /\ "is_anomaly" \in Range(trainer.df_features.columns)

\* ------------------------------------------------------------------ C21
\* the columns clean_data never writes
C21_Untouched ==
  {"case_id", "district", "crime_type_code", "severity_level", "hour"}

\* the first raw record, in input order, with the case_id of r
C21_First(raw, r) ==
  raw[CHOOSE i \in 1..Len(raw) :
        /\ raw[i].case_id = r.case_id
        /\ \A j \in 1..(i - 1) : raw[j].case_id # r.case_id]

\* C21: after clean_data no two cleaned records share a case_id, and each
\* cleaned record is the first raw record of its case_id in input order: it
\* agrees with it in every column that cleaning does not fill, and in the
\* filled columns wherever the raw value is present.
C21_KeepFirst ==
  Has(processor, "df_clean") =>
    LET raw == processor.df_crimes
        t == processor.df_clean
    IN  /\ \A i, j \in 1..Len(t) : i # j => t[i].case_id # t[j].case_id
        /\ \A i \in 1..Len(t) :
             LET o == C21_First(raw, t[i])
             IN  /\ \A c \in C21_Untouched : t[i][c] = o[c]
                 /\ \A c \in {"latitude", "longitude", "complainant_age"} :
                      ~IsNaN(o[c]) => t[i][c] = o[c]

\* a case_id occurred twice in the raw set with different districts, and a
\* record of it was kept
C21_Witness ==
  /\ Has(processor, "df_clean")
  /\ \E i, j \in 1..Len(processor.df_crimes) :
       /\ i < j
       /\ processor.df_crimes[i].case_id = processor.df_crimes[j].case_id
       /\ processor.df_crimes[i].district # processor.df_crimes[j].district
       /\ \E k \in 1..Len(processor.df_clean) :
            processor.df_clean[k].case_id = processor.df_crimes[i].case_id

\* ------------------------------------------------------------------ C22
C22_Filled == {"latitude", "longitude", "complainant_age"}

\* C22: after clean_data no cleaned record has a missing latitude, longitude
\* or complainant_age; a missing coordinate was replaced by the mean and a
\* missing age by the median of its column over the de-duplicated rows; and
\* a de-duplicated record is kept exactly when its coordinates, after the
\* fill, lie in the validity window.
C22_MissingFilled ==
  Has(processor, "df_clean") =>
    LET d == drop_duplicates(processor.df_crimes)
        t == processor.df_clean
        fill == [c \in C22_Filled |->
                   IF c = "complainant_age" THEN Median(Column(d, c))
                   ELSE Mean(Column(d, c))]
        filled == [i \in 1..Len(d) |->
                     [c \in C22_Filled |-> FillNa(d[i][c], fill[c])]]
    IN  /\ \A i \in 1..Len(t) : \A c \in C22_Filled : ~IsNaN(t[i][c])
        /\ \A i \in 1..Len(d) :
             LET kept == {k \in 1..Len(t) : t[k].case_id = d[i].case_id}
             IN  /\ kept # {} <=>
                      /\ C6_Inside(filled[i])
                 /\ \A k \in kept : \A c \in C22_Filled :
                      t[k][c] = filled[i][c]

\* ------------------------------------------------------------------ C23
\* C23: the grid table made by create_aggregated_features has exactly one
\* row for each grid cell that occurs among the featured records and no
\* other row, every row has total_crimes >= 1, and the total_crimes of all
\* rows add up to the number of featured records.
C23_GridRowsExact ==
  Has(processor, "grid_aggregated") =>
    LET f == processor.df_features
        g == processor.grid_aggregated
    IN  /\ {g[k].grid_cell : k \in 1..Len(g)}
             = {f[i].grid_cell : i \in 1..Len(f)}
        /\ \A j, k \in 1..Len(g) : j # k => g[j].grid_cell # g[k].grid_cell
        /\ \A k \in 1..Len(g) : g[k].total_crimes >= 1
        /\ SumSeq([k \in 1..Len(g) |-> Int2Rat(g[k].total_crimes)])
             = Int2Rat(Len(f))

\* two featured records that share a grid cell were aggregated into one row
C23_Witness ==
  /\ Has(processor, "grid_aggregated")
  /\ Len(processor.df_features) = 2
  /\ Len(processor.grid_aggregated) = 1
  /\ processor.grid_aggregated[1].total_crimes = 2

\* ------------------------------------------------------------------ C24
\* C24: when train_dbscan_clustering is through, every grid cell has exactly
\* one label, the label the fit gave its row, -1 standing for noise; the
\* reported cluster count is the number of distinct labels other than -1,
\* the reported noise count the number of cells labelled -1, and the cluster
\* count plus one if there is noise is the number of distinct labels.
C24_DbscanBookkeeping ==
  dbscan.phase = "done" =>
    LET l == dbscan.labels
        col == dbscan.dbscan_cluster
        noise == {i \in 1..Len(col) : col[i] = -1}
    IN  /\ Len(col) = Len(l)
        /\ \A i \in 1..Len(l) : col[i] = l[i]
        /\ dbscan.n_clusters = Cardinality(Range(col) \ {-1})
        /\ dbscan.n_noise = Cardinality(noise)
        /\ dbscan.n_clusters + (IF noise # {} THEN 1 ELSE 0)
             = Cardinality(Range(col))

\* four cells: two noise points and two clusters
C24_Witness ==
  /\ dbscan.phase = "done"
  /\ dbscan.n_noise = 2
  /\ dbscan.n_clusters = 2
  /\ Len(dbscan.dbscan_cluster) = 4

\* ------------------------------------------------------------------ C25
C25_NightHours == (20..23) \cup (0..6)

C25_Period(h) ==
  IF h \in 6..11 THEN "Morning"
  ELSE IF h \in 12..17 THEN "Afternoon"
  ELSE IF h \in 18..21 THEN "Evening"
  ELSE "Night"

\* C25: a featured record of hour h, for every h of 0..23, has is_night = 1
\* exactly when h >= 20 or h <= 6, is_night = 0 otherwise, and its
\* time_period is Morning for 6..11, Afternoon for 12..17, Evening for
\* 18..21 and Night for the other hours.
C25_NightAndPeriod ==
  \A i \in 1..Len(processor.df_features) :
    LET r == processor.df_features[i]
    IN  /\ r.hour \in Hours
        /\ r.is_night = (IF r.hour \in C25_NightHours THEN 1 ELSE 0)
        /\ r.time_period = C25_Period(r.hour)

\* a record reported at six: night flag set, period Morning
C25_Witness ==
  \E i \in 1..Len(processor.df_features) :
    /\ processor.df_features[i].hour = 6
    /\ processor.df_features[i].is_night = 1
    /\ processor.df_features[i].time_period = "Morning"

\* ------------------------------------------------------------------ C26
C26_Selected ==
  CASE steps_arg = StrArg("all") -> Range(StepOrder)
    [] steps_arg.kind = "str" /\ steps_arg # StrArg("all") ->
         {steps_arg.value[1]} \cap Range(StepOrder)
    [] OTHER -> Range(steps_arg.value) \cap Range(StepOrder)

C26_Part(step) == IF step \in C26_Selected THEN StepCalls(step) ELSE <<>>

C26_Plan ==
  C26_Part("generate") \o C26_Part("preprocess") \o C26_Part("train")
    \o C26_Part("visualize")

C26_IsPrefix(a, b) == Len(a) <= Len(b) /\ SubSeq(b, 1, Len(a)) = a

\* C26: in a run of run_pipeline the calls made so far are the beginning of
\* the calls of the selected steps ('all': the four steps, one name: that
\* step, a list: the listed steps) taken in the order generate, preprocess,
\* train, visualize; the run has failed exactly when a call raised, and then
\* that call is the last one made; the run succeeds only with every call of
\* every selected step made and none raised.
C26_StepSelection ==
  entry = "main" =>
    /\ C26_IsPrefix(log, C26_Plan)
    /\ (status = "failed") = (failed_call # "")
    /\ status = "failed" => log # <<>> /\ log[Len(log)] = failed_call
    /\ status = "ok" => log = C26_Plan

\* a list out of order: train has run to its end before visualize is called
C26_Witness ==
  /\ entry = "main"
  /\ steps_arg = ListArg(<<"visualize", "train">>)
  /\ log = train_calls \o <<"visualize">>
  /\ status = "ok"

\* ------------------------------------------------------------------ C27
C27_SameCell(f, i) == {j \in 1..Len(f) : f[j].grid_cell = f[i].grid_cell}

\* C27: the grid_crime_count of every featured record is the number of
\* featured records in its grid cell, at least 1 and at most the largest
\* grid_crime_count of the table; once the grid table is made, the row of
\* the record's cell has that number as its total_crimes.
C27_GridCountsAgree ==
  Has(processor, "df_features") =>
    LET f == processor.df_features
        g == processor.grid_aggregated
    IN  \A i \in 1..Len(f) :
          /\ f[i].grid_crime_count = Cardinality(C27_SameCell(f, i))
          /\ f[i].grid_crime_count >= 1
          /\ \E j \in 1..Len(f) :
               /\ \A k \in 1..Len(f) :
                    f[k].grid_crime_count <= f[j].grid_crime_count
               /\ f[i].grid_crime_count <= f[j].grid_crime_count
          /\ Has(processor, "grid_aggregated") =>
               \E k \in 1..Len(g) :
                 /\ g[k].grid_cell = f[i].grid_cell
                 /\ g[k].total_crimes = f[i].grid_crime_count

\* a record counted alone in its cell next to another cell, both aggregated
C27_Witness ==
  /\ Has(processor, "grid_aggregated")
  /\ \E i, j \in 1..Len(processor.df_features) :
       /\ processor.df_features[i].grid_cell
            # processor.df_features[j].grid_cell
       /\ processor.df_features[i].grid_crime_count = 1

\* ------------------------------------------------------------------ C28
\* C28: the status of every case in CASE_TABLE is one of the six keys of
\* the status map of the feature engineering: Reported, Assigned, Under
\* Investigation, Pending, Closed, Cold Case, spelled as there.
C28_StatusVocabulary ==
  \A i \in 1..Len(case_table) : case_table[i].status \in DOMAIN status_map

\* ------------------------------------------------------------------ C29
\* C29: a case has status Assigned with officer o exactly when an Active
\* assignment history record for that case with ASSIGNED_TO = o is there.
C29_AllOrNothing ==
  \A i \in 1..Len(case_table) : \A o \in Officers :
    (case_table[i].status = "Assigned" /\ case_table[i].officer = o)
      <=> [case_id |-> i, assigned_to |-> o, status |-> "Active"] \in history

\* ------------------------------------------------------------------ C30
\* a step in which a page or main_backend.py called get_connection
C30_Called == ~BackendCleanup /\ ~ConnLost

C30_Answers == session_conn >= 1 /\ conn_state = "open"

\* C30: whenever get_connection has been called, what it returned is None
\* or the connection the session now stores, and that connection is open;
\* it is the connection stored before when that one still answered, and
\* otherwise a connection opened by the call; None is returned only when
\* the stored one did not answer and no connection was opened, and then
\* None is what the session stores.
C30_ConnectionReuse ==
  [][C30_Called =>
       /\ returned' # NoConn =>
            /\ session_conn' = returned'
            /\ conn_state' = "open"
            /\ IF C30_Answers
               THEN returned' = session_conn /\ opened' = opened
               ELSE returned' = opened + 1 /\ opened' = opened + 1
       /\ returned' = NoConn =>
            /\ ~C30_Answers
            /\ opened' = opened
            /\ session_conn' = NoConn]_vars

\* a stored connection that no longer answered, closed by main_backend.py
\* or lost, was replaced by a new one that the call stored and returned
C30_Witness ==
  /\ opened >= 2
  /\ returned = opened
  /\ session_conn = opened
  /\ conn_state = "open"

====
